---- MODULE Spec2Model ----
(***************************************************************************)
(* A model of PyBlockFoam's vertex / block topology (src/main.py).         *)
(*                                                                         *)
(* Python objects are modelled by handles: the k-th Vertex object built is *)
(* the handle k-1 (v0, v1, ... of src/main.py:356-368), the k-th Block     *)
(* object that survives its constructor is the handle k-1 (b0, b1).        *)
(* Neither class defines __eq__, so equality of objects is identity, i.e.  *)
(* equality of handles.  Both classes hash by their id (__hash__), which   *)
(* is what the insertion-ordered dictionary Vertex.vertex_dict keys on.    *)
(* Coordinates, Block.cells mutation and the name argument do not take     *)
(* part in any modelled operation and are left out.                        *)
(***************************************************************************)
EXTENDS Integers, Sequences, FiniteSets, TLC

\* Bounds of the model.
MaxVertices == 12
MaxBlocks == 2

\* Python's None, as returned by dict.get on a miss (ids and indices are >= 0).
None == -1

\* The number of singly-occurring arguments Block.__init__ asks for.
NCorners == 8

VARIABLES
    Vertex_count,   \* Vertex.count
    Block_count,    \* Block.count
    vertex_dict,    \* Vertex.vertex_dict: insertion-ordered entries
                    \*   [key, hash, val], hash the key's hash when inserted
    vertex_id,      \* Vertex handle -> its _id
    blocks,         \* Block handle -> [id, name, cells]
    call_args,      \* history: Block handle -> the *vertices tuple it was built from
    last            \* history: the last call, [op, args, raised]; args is the
                    \*   *vertices tuple of Block(), the value of an id assignment

vars == <<Vertex_count, Block_count, vertex_dict, vertex_id, blocks, call_args, last>>

Size(f) == Cardinality(DOMAIN f)

\* f, a function on 0..n-1, extended by x at n.
Extend(f, x) == [i \in 0..Size(f) |-> IF i = Size(f) THEN x ELSE f[i]]

Vertices == DOMAIN vertex_id
Blocks == DOMAIN blocks

Range(a, n) == [i \in 1..n |-> a + i - 1]
Reverse(s) == [i \in 1..Len(s) |-> s[Len(s) + 1 - i]]

----------------------------------------------------------------------------
\* Topology constants.

edge_map ==
    << <<0, 1>>, <<3, 2>>, <<7, 6>>, <<4, 5>>, <<0, 3>>, <<1, 2>>,
       <<5, 6>>, <<4, 7>>, <<0, 4>>, <<1, 5>>, <<2, 6>>, <<3, 7>> >>

\* itertools.permutations of each pair, chained: (a, b), (b, a), ...
permutate_neasted_iterable(iterable) ==
    [k \in 1..(2 * Len(iterable)) |->
        LET item == iterable[(k + 1) \div 2]
        IN  IF k % 2 = 1 THEN item ELSE <<item[2], item[1]>>]

RECURSIVE ConnectionMapFrom(_, _, _)
ConnectionMapFrom(pairs, k, mapping) ==
    IF k > Len(pairs) THEN mapping
    ELSE LET a == pairs[k][1]
             b == pairs[k][2]
         IN  ConnectionMapFrom(pairs, k + 1,
                IF a \in DOMAIN mapping
                THEN [mapping EXCEPT ![a] = Append(@, b)]
                ELSE [x \in DOMAIN mapping \cup {a} |->
                        IF x = a THEN <<b>> ELSE mapping[x]])

\* Block.vertex_connection_map: local id -> list of adjacent local ids.
vertex_connection_map ==
    ConnectionMapFrom(permutate_neasted_iterable(edge_map), 1, [x \in {} |-> <<>>])

----------------------------------------------------------------------------
\* Vertex.

\* Vertex.__hash__: hash((type(self), self.id)).
VertexHash(v) == vertex_id[v]

\* A dict lookup: the entry holding this object under its present hash, or 0.
Lookup(d, v) ==
    LET S == {i \in 1..Len(d) : d[i].key = v /\ d[i].hash = VertexHash(v)}
    IN  IF S = {} THEN 0 ELSE CHOOSE i \in S : TRUE

\* Vertex.vertex_dict[vert].append(rec) on a defaultdict(list).
DictAppend(d, v, rec) ==
    LET i == Lookup(d, v)
    IN  IF i = 0
        THEN Append(d, [key |-> v, hash |-> VertexHash(v), val |-> <<rec>>])
        ELSE [d EXCEPT ![i].val = Append(@, rec)]

\* Vertex.vertex_dict.get(self, []).
DictGet(d, v) == IF Lookup(d, v) = 0 THEN <<>> ELSE d[Lookup(d, v)].val

\* Vertex.get_vertices: the keys in insertion order.
get_vertices == [i \in 1..Len(vertex_dict) |-> vertex_dict[i].key]

\* Vertex.global_id: dict((vertex, i) for i, vertex in enumerate(keys)).get(self);
\* a key met twice keeps its last index.
global_id(v) ==
    LET S == {i \in 1..Len(get_vertices) : get_vertices[i] = v}
    IN  IF S = {} THEN None
        ELSE (CHOOSE i \in S : \A j \in S : j <= i) - 1

----------------------------------------------------------------------------
\* Block.

\* [vertices.count(vert) for vert in vertices].count(1)
CountOfOnes(vertices) ==
    Cardinality({i \in 1..Len(vertices) :
        Cardinality({j \in 1..Len(vertices) : vertices[j] = vertices[i]}) = 1})

\* for i, vert in enumerate(vertices): Vertex.vertex_dict[vert].append((self, i))
RECURSIVE AppendCorners(_, _, _, _)
AppendCorners(d, self, vertices, k) ==
    IF k > Len(vertices) THEN d
    ELSE AppendCorners(
            DictAppend(d, vertices[k], [block |-> self, local_vertex_id |-> k - 1]),
            self, vertices, k + 1)

\* Block.__init__ validating only after the id has been drawn from the counter.
Block_init_CountFirst(vertices) ==
    IF CountOfOnes(vertices) # NCorners
    THEN [raised |-> "ValueError", Block_count |-> Block_count + 1,
          vertex_dict |-> vertex_dict, blocks |-> blocks, call_args |-> call_args]
    ELSE LET self == Size(blocks)
         IN  [raised |-> "None",
              Block_count |-> Block_count + 1,
              blocks |-> Extend(blocks, [id |-> Block_count,
                                         name |-> <<"Block-", Block_count>>,
                                         cells |-> <<10, 10, 10>>]),
              call_args |-> Extend(call_args, vertices),
              vertex_dict |-> AppendCorners(vertex_dict, self, vertices, 1)]

\* Block.__init__(*vertices): the outcome and the state it leaves.
Block_init(vertices) ==
    IF CountOfOnes(vertices) # NCorners
    THEN [raised |-> "ValueError", Block_count |-> Block_count,
          vertex_dict |-> vertex_dict, blocks |-> blocks, call_args |-> call_args]
    ELSE LET self == Size(blocks)
         IN  [raised |-> "None",
              Block_count |-> Block_count + 1,
              blocks |-> Extend(blocks, [id |-> Block_count,
                                         name |-> <<"Block-", Block_count>>,
                                         cells |-> <<10, 10, 10>>]),
              call_args |-> Extend(call_args, vertices),
              vertex_dict |-> AppendCorners(vertex_dict, self, vertices, 1)]

RECURSIVE ItemsOf(_, _, _, _)
ItemsOf(d, self, i, k) ==
    IF i > Len(d) THEN <<>>
    ELSE IF k > Len(d[i].val) THEN ItemsOf(d, self, i + 1, 1)
    ELSE IF d[i].val[k].block = self
         THEN <<[vertex |-> d[i].key, local_id |-> d[i].val[k].local_vertex_id]>>
              \o ItemsOf(d, self, i, k + 1)
         ELSE ItemsOf(d, self, i, k + 1)

\* Block.vertices_with_local_id: scan of the whole dict for this block's records.
vertices_with_local_id(self) == ItemsOf(vertex_dict, self, 1, 1)

\* x put into the sorted sequence s after every element not greater than it.
InsertSorted(s, x) ==
    LET n == Cardinality({i \in 1..Len(s) : s[i].local_id <= x.local_id})
    IN  SubSeq(s, 1, n) \o <<x>> \o SubSeq(s, n + 1, Len(s))

RECURSIVE SortedByLocalId(_, _)
SortedByLocalId(s, k) ==
    IF k = 0 THEN <<>> ELSE InsertSorted(SortedByLocalId(s, k - 1), s[k])

\* Block.vertices: sorted(vertices_with_local_id, key=local_id), vertices only.
vertices(self) ==
    LET s == SortedByLocalId(vertices_with_local_id(self),
                             Len(vertices_with_local_id(self)))
    IN  [i \in 1..Len(s) |-> s[i].vertex]

\* Block.vertices_by_global_id: [vertex.id for vertex in self.vertices].
vertices_by_global_id(self) ==
    [i \in 1..Len(vertices(self)) |-> vertex_id[vertices(self)[i]]]

\* Block.blockMesh_format, as its fields.
blockMesh_format(self) ==
    [hex |-> vertices_by_global_id(self), name |-> blocks[self].name,
     cells |-> blocks[self].cells, simpleGrading |-> <<1, 1, 1>>]

\* Vertex.connected_to: iterating vertex_connection_map.get(vert_id) raises
\* TypeError when the local id is no key of the map.
connected_to(v) ==
    LET recs == DictGet(vertex_dict, v)
    IN  IF \E k \in 1..Len(recs) :
              recs[k].local_vertex_id \notin DOMAIN vertex_connection_map
        THEN [raised |-> "TypeError", value |-> {}]
        ELSE [raised |-> "None",
              value |-> UNION {
                 {vertices(recs[k].block)[
                      vertex_connection_map[recs[k].local_vertex_id][n] + 1] :
                    n \in 1..Len(vertex_connection_map[recs[k].local_vertex_id])} :
                 k \in 1..Len(recs)}]

----------------------------------------------------------------------------
\* The calls.

\* The argument tuples tried: 0, 7, 8, 9, 10 and 11 references, in and out of
\* creation order, with and without repeats; b0 and b1 of src/main.py:371-372.
BlockArgs ==
    { <<>>, Range(0, 7), Range(0, 8), Range(4, 8), Reverse(Range(0, 8)),
      <<1, 8, 9, 2, 5, 10, 11, 6>>,
      <<0, 1, 2, 3, 4, 5, 6, 0>>,
      Range(0, 9), Range(0, 8) \o <<0>>,
      Range(0, 10), Range(0, 8) \o <<8, 8>>, <<8, 8>> \o Range(0, 8),
      Range(0, 8) \o <<8, 8, 8>> }

Init ==
    /\ Vertex_count = 0
    /\ Block_count = 0
    /\ vertex_dict = <<>>
    /\ vertex_id = [v \in {} |-> 0]
    /\ blocks = [b \in {} |-> 0]
    /\ call_args = [b \in {} |-> <<>>]
    /\ last = [op |-> "import", args |-> <<>>, raised |-> "None"]

\* Vertex(x, y, z): self.id = Vertex.count; Vertex.count += 1.
CreateVertex ==
    /\ Size(vertex_id) < MaxVertices
    /\ vertex_id' = Extend(vertex_id, Vertex_count)
    /\ Vertex_count' = Vertex_count + 1
    /\ last' = [op |-> "Vertex", args |-> <<>>, raised |-> "None"]
    /\ UNCHANGED <<Block_count, vertex_dict, blocks, call_args>>

\* Block(*args) on Vertex objects that exist.
NewBlock ==
    \E args \in BlockArgs :
        /\ \A i \in 1..Len(args) : args[i] \in Vertices
        /\ LET r == Block_init(args)
           IN  /\ r.raised = "None" => Size(blocks) < MaxBlocks
               /\ Block_count' = r.Block_count
               /\ vertex_dict' = r.vertex_dict
               /\ blocks' = r.blocks
               /\ call_args' = r.call_args
               /\ last' = [op |-> "Block", args |-> args, raised |-> r.raised]
        /\ UNCHANGED <<Vertex_count, vertex_id>>

Next == CreateVertex \/ NewBlock

Spec == Init /\ [][Next]_vars

----------------------------------------------------------------------------
\* Assignments to id after construction.

\* The values a caller assigns: the falsy one, another object's id, a fresh one.
IdValues == {0, 1, 99}

\* Vertex.id setter: if getattr(self, "id", None): raise ValueError.
Vertex_id_setter(self, value) ==
    IF vertex_id[self] # 0
    THEN [raised |-> "ValueError", vertex_id |-> vertex_id]
    ELSE [raised |-> "None", vertex_id |-> [vertex_id EXCEPT ![self] = value]]

\* Block.id setter: if getattr(self, "id", None): raise ValueError.
Block_id_setter(self, value) ==
    IF blocks[self].id # 0
    THEN [raised |-> "ValueError", blocks |-> blocks]
    ELSE [raised |-> "None", blocks |-> [blocks EXCEPT ![self].id = value]]

\* v.id = value on an existing vertex.
SetVertexId ==
    \E v \in Vertices, value \in IdValues :
        LET r == Vertex_id_setter(v, value)
        IN  /\ vertex_id' = r.vertex_id
            /\ last' = [op |-> "Vertex.id", args |-> <<value>>, raised |-> r.raised]
            /\ UNCHANGED <<Vertex_count, Block_count, vertex_dict, blocks, call_args>>

\* b.id = value on an existing block.
SetBlockId ==
    \E b \in Blocks, value \in IdValues :
        LET r == Block_id_setter(b, value)
        IN  /\ blocks' = r.blocks
            /\ last' = [op |-> "Block.id", args |-> <<value>>, raised |-> r.raised]
            /\ UNCHANGED <<Vertex_count, Block_count, vertex_dict, vertex_id, call_args>>

NextId == CreateVertex \/ NewBlock \/ SetVertexId \/ SetBlockId

\* The program with id assignments among its calls.
SpecId == Init /\ [][NextId]_vars

----------------------------------------------------------------------------
\* Properties.

PairwiseDistinct(s) == \A i, j \in 1..Len(s) : s[i] = s[j] => i = j

\* The 12 edges as unordered pairs of local corners.
EdgeSet == {{edge_map[k][1], edge_map[k][2]} : k \in 1..Len(edge_map)}

\* The membership records of vertex v: (block, local index) pairs.
Memberships(v) ==
    UNION {{<<vertex_dict[i].val[k].block, vertex_dict[i].val[k].local_vertex_id>> :
               k \in 1..Len(vertex_dict[i].val)} :
           i \in {i \in 1..Len(vertex_dict) : vertex_dict[i].key = v}}

\* b0 and b1 of the example are built and nothing else.
ExampleBuilt ==
    /\ Size(blocks) = 2
    /\ call_args[0] = Range(0, 8)
    /\ call_args[1] = <<1, 8, 9, 2, 5, 10, 11, 6>>

\* C1: the k-th created vertex has global index k-1, used as a corner or not.
C1_GlobalIdIsCreationOrder ==
    \A v \in Vertices : global_id(v) = v

\* C2: a block construction succeeds exactly when it is given 8 pairwise
\* distinct vertex references, whatever the length of the argument tuple.
C2_SucceedsIffEightDistinct ==
    last.op = "Block" =>
        (last.raised = "None" <=> (Len(last.args) = 8 /\ PairwiseDistinct(last.args)))

\* C3: every block has exactly 8 membership records, with local indices 0..7
\* once each.
C3_EightRecordsPerBlock ==
    \A b \in Blocks :
        /\ Len(vertices_with_local_id(b)) = 8
        /\ \A n \in 0..7 :
              Cardinality({k \in 1..Len(vertices_with_local_id(b)) :
                              vertices_with_local_id(b)[k].local_id = n}) = 1

\* C4: a block construction that fails adds no membership record, changes no
\* global index and does not advance Block.count, so block ids stay consecutive.
C4_FailedBlockLeavesNoTrace ==
    /\ [](\A b \in Blocks : blocks[b].id = b)
    /\ [][(last'.op = "Block" /\ last'.raised = "ValueError") =>
            /\ vertex_dict' = vertex_dict
            /\ Block_count' = Block_count
            /\ blocks' = blocks
            /\ \A v \in Vertices : global_id(v)' = global_id(v)]_vars

\* A construction given 8 references with a repeat has failed, after a block
\* was built.
C4_Witness ==
    /\ last.op = "Block"
    /\ last.raised = "ValueError"
    /\ Len(last.args) = 8
    /\ Blocks # {}

\* C5: the numbers of a block's line are the global indices of its corners in
\* local order.
C5_BlockLineUsesGlobalIds ==
    \A b \in Blocks :
        blockMesh_format(b).hex =
            [i \in 1..Len(vertices(b)) |-> global_id(vertices(b)[i])]

\* C6: every assignment to the id of an existing vertex or block raises
\* 'id already set' and every object keeps the id the counter gave it.
C6_IdIsWriteOnce ==
    /\ last.op \in {"Vertex.id", "Block.id"} => last.raised = "ValueError"
    /\ \A v \in Vertices : vertex_id[v] = v
    /\ \A b \in Blocks : blocks[b].id = b

\* C7: Block.vertices is the 8 corners in the order given at construction,
\* whatever was built later.
C7_VerticesInSuppliedOrder ==
    \A b \in Blocks :
        /\ Len(vertices(b)) = 8
        /\ vertices(b) = call_args[b]

\* C8: connected_to(v) is the union over v's memberships (b, i) of the vertices
\* at the local positions j of b with {i, j} an edge, three for each i; for b0
\* and b1 of the example connected_to(v1) = {v0, v2, v5, v8}.
C8_ConnectedToIsEdgeUnion ==
    /\ \A v \in Vertices :
          /\ connected_to(v).raised = "None"
          /\ \A m \in Memberships(v) :
                Cardinality({j \in 0..7 : {m[2], j} \in EdgeSet}) = 3
          /\ connected_to(v).value =
                UNION {{vertices(m[1])[j + 1] :
                          j \in {j \in 0..7 : {m[2], j} \in EdgeSet}} :
                       m \in Memberships(v)}
    /\ ExampleBuilt => connected_to(1).value = {0, 2, 5, 8}

\* C9: no vertex is connected to itself.
C9_NoSelfLoop ==
    \A v \in Vertices :
        connected_to(v).raised = "None" => v \notin connected_to(v).value

\* C10: a vertex's global index never changes once the vertex exists, and the
\* order of two vertices' global indices never changes.
C10_GlobalIdNeverChanges ==
    [][/\ \A v \in Vertices : global_id(v)' = global_id(v)
       /\ \A v, w \in Vertices :
             (global_id(v) < global_id(w)) <=> (global_id(v)' < global_id(w)')]_vars

----------------------------------------------------------------------------
\* What holds of the blocks built from exactly 8 references.

\* Every block so far was built from a tuple of 8 references.
EveryBlockHasEightArgs == \A b \in Blocks : Len(call_args[b]) = NCorners

\* With 8 references per block: 8 records per block, local indices 0..7 once each.
EightArgs_EightRecords == EveryBlockHasEightArgs => C3_EightRecordsPerBlock

\* With 8 references per block: Block.vertices is the tuple supplied.
EightArgs_SuppliedOrder == EveryBlockHasEightArgs => C7_VerticesInSuppliedOrder

\* With 8 references per block: connected_to is the union over the edges.
EightArgs_EdgeUnion == EveryBlockHasEightArgs => C8_ConnectedToIsEdgeUnion

\* With 8 references per block: no vertex is connected to itself.
EightArgs_NoSelfLoop ==
    EveryBlockHasEightArgs =>
        \A v \in Vertices :
            connected_to(v).raised = "None" /\ v \notin connected_to(v).value

\* Whatever the tuple, Block.vertices is the tuple supplied.
AnyArgs_SuppliedOrder == \A b \in Blocks : vertices(b) = call_args[b]

\* A global index, once a vertex has one, stays.
GlobalIdStaysOnceSet ==
    [][\A v \in Vertices : global_id(v) # None => global_id(v)' = global_id(v)]_vars

====
